---- MODULE Spec2Model ----
(***************************************************************************)
(* Model of lib/loopdev.c: the loop device context (struct loopdev_cxt),   *)
(* its attribute getters with the sysfs / ioctl fallback, the three-tier   *)
(* device iterator and the attach (setup) / detach (delete) protocol.      *)
(*                                                                         *)
(* The kernel side (device nodes, /proc/partitions, sysfs attributes and   *)
(* the LOOP_* ioctls) is the environment of the library; it is modelled by *)
(* the variables dev, dirents, kernelNew and devLoopIsDir.                 *)
(***************************************************************************)
EXTENDS Integers, Sequences, FiniteSets, TLC

VARIABLES
    lc,             \* lc[c]: struct loopdev_cxt of context c
    call,           \* call[c]: locals of a running loopcxt_setup_device
    dev,            \* dev[n]: kernel state of loop device n
    dirents,        \* entries of the device directory, in readdir order
    kernelNew,      \* get_linux_version() >= KERNEL_VERSION(2,6,37)
    devLoopIsDir,   \* stat(_PATH_DEV_LOOP) says it is a directory
    ret,            \* ret[c]: the last call that returned in context c
    probed,         \* probed[c]: candidates the iterator surfaced since init
    att             \* history of discoveries and of the attach that followed

vars == <<lc, call, dev, dirents, kernelNew, devLoopIsDir, ret, probed, att>>

----------------------------------------------------------------------------
(* Bounds of the model *)

MaxOffset == 1          \* offsets and size limits range over 0..MaxOffset
MaxScanIdx == 9         \* highest device index a directory entry can name
MaxDirLen == 2          \* longest device directory enumerated by SpecIter

----------------------------------------------------------------------------
(* Program constants *)

LOOPDEV_DEFAULT_NNODES == 8
LOOPDEV_MAJOR == 7
LO_NAME_SIZE == 64
LO_FLAGS_AUTOCLEAR == 4
EPERM == 1
ENOENT == 2
ENXIO == 6
EBUSY == 16
EINVAL == 22

Ctxs == {1, 2}
AllIdx == 0..MaxScanIdx
Offsets == 0..MaxOffset

LOOPDEV_FL == {"RDONLY", "RDWR", "NOSYSFS", "NOIOCTL", "DEVSUBDIR"}
LOOPITER_FL == {"FREE", "USED"}

\* F applied to the value of v, v being evaluated once
Bind(v, F(_)) == CHOOSE out \in {F(x) : x \in {v}} : TRUE

Min(a, b) == IF a < b THEN a ELSE b

----------------------------------------------------------------------------
(* Strings.  A path name is [id, len, mark]: the text id of length len; mark *)
(* is "*" when the byte at LO_NAME_SIZE - 2 was overwritten by the sentinel. *)

NullName == [id |-> "NULL", len |-> 0, mark |-> ""]
EmptyName == [id |-> "", len |-> 0, mark |-> ""]
MkName(id, len) == [id |-> id, len |-> len, mark |-> ""]

\* strncpy(dst, src, LO_NAME_SIZE); dst[LO_NAME_SIZE - 1] = '\0'
StrncpyName(src) == [src EXCEPT !.len = Min(src.len, LO_NAME_SIZE - 1)]

\* buf[LO_NAME_SIZE - 2] = '*'; buf[LO_NAME_SIZE - 1] = '\0'; strdup(buf)
\* on a zero-padded buffer holding a string of at most LO_NAME_SIZE - 1 bytes
StarName(buf) ==
    IF buf.len >= LO_NAME_SIZE - 2
    THEN [buf EXCEPT !.len = LO_NAME_SIZE - 1, !.mark = "*"]
    ELSE buf

\* Device paths: <<>> is the empty string, <<"flat", n>> is /dev/loop<n>,
\* <<"subdir", n>> is /dev/loop/<n>, <<"bad">> any path that names no node.
NoPath == <<>>
BadPath == <<"bad">>
IsLoopPath(p) == Len(p) = 2
PathIdx(p) == p[2]

\* Arguments of loopcxt_set_device: NULL, the name "loop<n>", a name shorter
\* than five bytes, or an absolute path.
NullArg == <<"null">>
NameArg(n) == <<"name", n>>
ShortArg == <<"short">>
AbsArg(p) == <<"abs", p>>

----------------------------------------------------------------------------
(* The kernel and the file system *)

ZeroInfo == [lo_offset |-> 0, lo_sizelimit |-> 0, lo_flags |-> {},
             lo_file_name |-> EmptyName]

FreeDev == [attached |-> FALSE, hasStatus |-> FALSE, backing |-> NullName,
            status |-> ZeroInfo]

\* A directory entry: "node" is named loop<n> (or <n> below /dev/loop),
\* "part" is named loop<n>p1; dtype is its d_type.
Dirent(kind, n, dtype) == [kind |-> kind, n |-> n, dtype |-> dtype]

Layout == IF devLoopIsDir THEN "subdir" ELSE "flat"

\* stat()/open() of a device path finds a block device node
NodeExists(p) ==
    /\ IsLoopPath(p)
    /\ p[1] = Layout
    /\ \E i \in 1..Len(dirents) :
          dirents[i] = Dirent("node", PathIdx(p), "BLK")

\* the attributes below /sys/block/loop<n>/loop/ exist
SysfsReadable(n) == kernelNew /\ dev[n].attached

\* /proc/partitions: a disk row, then one row per attached loop device
RECURSIVE LoopRows(_)
LoopRows(n) ==
    IF n > MaxScanIdx THEN <<>>
    ELSE (IF dev[n].attached THEN <<[major |-> LOOPDEV_MAJOR, n |-> n]>>
          ELSE <<>>) \o LoopRows(n + 1)

ProcPartitions == <<[major |-> 8, n |-> 0]>> \o LoopRows(0)

----------------------------------------------------------------------------
(* struct loopdev_cxt *)

\* lc.nopen counts the descriptors of devices the calls on the context
\* opened and did not close
NoFd == <<>>
NoDevno == -1

ZeroIter == [flags |-> {}, done |-> FALSE, default_check |-> FALSE,
             ncur |-> 0, minors |-> <<>>, nminors |-> 0,
             procOpen |-> FALSE, proc |-> <<>>]

ZeroCxt == [flags |-> {}, device |-> NoPath, fd |-> NoFd,
            has_info |-> FALSE, info |-> ZeroInfo, filename |-> NullName,
            sysfs |-> NoDevno, iter |-> ZeroIter, extra_check |-> FALSE,
            nopen |-> 0]

loopcxt_ioctl_enabled(l) == "NOIOCTL" \notin l.flags

\* (lc->flags && FLAG): true when any flag at all is set
FlagsLogicalAnd(flags) == flags # {}

\* the path set_device composes for a name that is not absolute
ComposePath(flags, device) ==
    IF "DEVSUBDIR" \in flags
    THEN <<"subdir", device[2]>>
    ELSE IF device = ShortArg THEN BadPath ELSE <<"flat", device[2]>>

\* loopcxt_set_device without "lc->has_info = 0" and without the close()
loopcxt_set_device_keeps(l, device) ==
    IF device = NullArg
    THEN [lc |-> [l EXCEPT !.device = NoPath, !.sysfs = NoDevno], rc |-> 0]
    ELSE IF device[1] = "abs"
    THEN [lc |-> [l EXCEPT !.device = device[2], !.sysfs = NoDevno],
          rc |-> 0]
    ELSE IF "DEVSUBDIR" \in l.flags /\ device = ShortArg
    THEN [lc |-> [l EXCEPT !.device = NoPath], rc |-> -1]
    ELSE [lc |-> [l EXCEPT !.device = ComposePath(l.flags, device),
                           !.sysfs = NoDevno],
          rc |-> 0]

loopcxt_set_device(l, device) ==
    LET l1 == [l EXCEPT !.fd = NoFd, !.has_info = FALSE, !.device = NoPath,
                        !.nopen = IF l.fd # NoFd THEN @ - 1 ELSE @]
    IN  IF device = NullArg
        THEN [lc |-> [l1 EXCEPT !.sysfs = NoDevno], rc |-> 0]
        ELSE IF device[1] = "abs"
        THEN [lc |-> [l1 EXCEPT !.device = device[2], !.sysfs = NoDevno],
              rc |-> 0]
        ELSE IF "DEVSUBDIR" \in l.flags /\ device = ShortArg
        THEN [lc |-> l1, rc |-> -1]
        ELSE [lc |-> [l1 EXCEPT !.device = ComposePath(l.flags, device),
                                !.sysfs = NoDevno],
              rc |-> 0]

loopcxt_init(flags) ==
    LET l0 == loopcxt_set_device([ZeroCxt EXCEPT !.flags = flags], NullArg).lc
    IN  IF ~FlagsLogicalAnd(l0.flags) /\ kernelNew
        THEN [l0 EXCEPT !.flags = @ \cup {"NOIOCTL"}]
        ELSE l0

loopcxt_get_sysfs(l) ==
    IF l.device = NoPath \/ "NOSYSFS" \in l.flags
    THEN [lc |-> l, ok |-> FALSE, log |-> <<>>]
    ELSE IF l.sysfs = NoDevno
    THEN IF NodeExists(l.device)
         THEN [lc |-> [l EXCEPT !.sysfs = PathIdx(l.device)], ok |-> TRUE,
               log |-> <<"devno_ok">>]
         ELSE [lc |-> l, ok |-> FALSE, log |-> <<"devno_fail">>]
    ELSE [lc |-> l, ok |-> TRUE, log |-> <<>>]

OpenMode(l) == IF "RDWR" \in l.flags THEN "O_RDWR" ELSE "O_RDONLY"

\* the result of open(lc->device, mode) stored in lc->fd
OpenDevice(l) ==
    LET fd == IF NodeExists(l.device)
              THEN <<l.device, OpenMode(l)>> ELSE NoFd
    IN  [lc |-> [l EXCEPT !.fd = fd,
                          !.nopen = IF fd # NoFd THEN @ + 1 ELSE @],
         fd |-> fd,
         log |-> IF fd = NoFd THEN <<"open_fail">> ELSE <<"open_ok">>]

\* loopcxt_get_fd without "if (lc->fd < 0)": every call opens
loopcxt_get_fd_reopen(l) ==
    IF l.device = NoPath
    THEN [lc |-> l, fd |-> NoFd, log |-> <<>>]
    ELSE OpenDevice(l)

loopcxt_get_fd(l) ==
    IF l.device = NoPath
    THEN [lc |-> l, fd |-> NoFd, log |-> <<>>]
    ELSE IF l.fd = NoFd
    THEN OpenDevice(l)
    ELSE [lc |-> l, fd |-> l.fd, log |-> <<>>]

\* the device an open descriptor refers to
FdIdx(fd) == PathIdx(fd[1])

loopcxt_get_info(l) ==
    IF l.has_info
    THEN [lc |-> l, ok |-> TRUE, log |-> <<"cached_info">>]
    ELSE Bind(loopcxt_get_fd(l), LAMBDA f :
             IF f.fd = NoFd
             THEN [lc |-> f.lc, ok |-> FALSE, log |-> f.log]
             ELSE IF dev[FdIdx(f.fd)].attached
             THEN [lc |-> [f.lc EXCEPT !.has_info = TRUE,
                                       !.info = dev[FdIdx(f.fd)].status],
                   ok |-> TRUE, log |-> f.log \o <<"LOOP_GET_STATUS64_ok">>]
             ELSE [lc |-> f.lc, ok |-> FALSE,
                   log |-> f.log \o <<"LOOP_GET_STATUS64_fail">>])

----------------------------------------------------------------------------
(* Attribute getters: sysfs first, then the LOOP_GET_STATUS64 ioctl *)

\* sysfs_strdup / sysfs_read_u64 / sysfs_read_int on loop/<attr>
SysfsLog(s) ==
    s.log \o (IF ~s.ok THEN <<>>
              ELSE IF SysfsReadable(s.lc.sysfs) THEN <<"sysfs_ok">>
              ELSE <<"sysfs_fail">>)

\* rc of the getter after the sysfs read: -EINVAL without a sysfs handle
SysfsRc(s) ==
    IF s.ok THEN (IF SysfsReadable(s.lc.sysfs) THEN 0 ELSE -1) ELSE -EINVAL

AutoclearBit(flags) == IF "AUTOCLEAR" \in flags THEN 1 ELSE 0

loopcxt_get_backing_file(l) ==
    Bind(loopcxt_get_sysfs(l), LAMBDA s :
        IF s.ok /\ SysfsReadable(s.lc.sysfs)
        THEN [lc |-> s.lc, str |-> dev[s.lc.sysfs].backing,
              log |-> SysfsLog(s)]
        ELSE IF loopcxt_ioctl_enabled(s.lc)
        THEN Bind(loopcxt_get_info(s.lc), LAMBDA g :
                 IF g.ok
                 THEN [lc |-> [g.lc EXCEPT !.info.lo_file_name =
                                              StarName(@)],
                       str |-> StarName(g.lc.info.lo_file_name),
                       log |-> SysfsLog(s) \o g.log]
                 ELSE [lc |-> g.lc, str |-> NullName,
                       log |-> SysfsLog(s) \o g.log])
        ELSE [lc |-> s.lc, str |-> NullName, log |-> SysfsLog(s)])

\* GetU64 with "if (loopcxt_ioctl_enabled(lc))" in place of
\* "if (rc && loopcxt_ioctl_enabled(lc))"
GetU64_ioctl_always(l, field) ==
    Bind(loopcxt_get_sysfs(l), LAMBDA s :
        IF loopcxt_ioctl_enabled(s.lc)
        THEN Bind(loopcxt_get_info(s.lc), LAMBDA g :
                 IF g.ok
                 THEN [lc |-> g.lc, rc |-> 0, num |-> g.lc.info[field],
                       log |-> SysfsLog(s) \o g.log]
                 ELSE [lc |-> g.lc, rc |-> SysfsRc(s),
                       num |-> IF SysfsRc(s) = 0
                               THEN dev[s.lc.sysfs].status[field] ELSE 0,
                       log |-> SysfsLog(s) \o g.log])
        ELSE [lc |-> s.lc, rc |-> SysfsRc(s),
              num |-> IF SysfsRc(s) = 0 THEN dev[s.lc.sysfs].status[field]
                      ELSE 0,
              log |-> SysfsLog(s)])

\* the common body of loopcxt_get_offset and loopcxt_get_sizelimit
GetU64(l, field) ==
    Bind(loopcxt_get_sysfs(l), LAMBDA s :
        IF SysfsRc(s) = 0
        THEN [lc |-> s.lc, rc |-> 0, num |-> dev[s.lc.sysfs].status[field],
              log |-> SysfsLog(s)]
        ELSE IF loopcxt_ioctl_enabled(s.lc)
        THEN Bind(loopcxt_get_info(s.lc), LAMBDA g :
                 IF g.ok
                 THEN [lc |-> g.lc, rc |-> 0, num |-> g.lc.info[field],
                       log |-> SysfsLog(s) \o g.log]
                 ELSE [lc |-> g.lc, rc |-> SysfsRc(s), num |-> 0,
                       log |-> SysfsLog(s) \o g.log])
        ELSE [lc |-> s.lc, rc |-> SysfsRc(s), num |-> 0,
              log |-> SysfsLog(s)])

loopcxt_get_offset(l) == GetU64(l, "lo_offset")

loopcxt_get_sizelimit(l) == GetU64(l, "lo_sizelimit")

loopcxt_is_autoclear(l) ==
    Bind(loopcxt_get_sysfs(l), LAMBDA s :
        IF s.ok /\ SysfsReadable(s.lc.sysfs)
        THEN [lc |-> s.lc, log |-> SysfsLog(s),
              num |-> AutoclearBit(dev[s.lc.sysfs].status.lo_flags)]
        ELSE IF loopcxt_ioctl_enabled(s.lc)
        THEN Bind(loopcxt_get_info(s.lc), LAMBDA g :
                 IF g.ok
                 THEN [lc |-> g.lc, log |-> SysfsLog(s) \o g.log,
                       num |-> LO_FLAGS_AUTOCLEAR
                               * AutoclearBit(g.lc.info.lo_flags)]
                 ELSE [lc |-> g.lc, log |-> SysfsLog(s) \o g.log,
                       num |-> 0])
        ELSE [lc |-> s.lc, log |-> SysfsLog(s), num |-> 0])

----------------------------------------------------------------------------
(* Attribute setters: stage values in lc->info and lc->filename *)

loopcxt_set_offset(l, offset) == [l EXCEPT !.info.lo_offset = offset]

loopcxt_set_sizelimit(l, sizelimit) ==
    [l EXCEPT !.info.lo_sizelimit = sizelimit]

loopcxt_set_flags(l, flags) == [l EXCEPT !.info.lo_flags = flags]

\* canonicalize_path() is taken to return its argument
loopcxt_set_backing_file(l, filename) ==
    [l EXCEPT !.filename = filename,
              !.info.lo_file_name = StrncpyName(filename)]

----------------------------------------------------------------------------
(* The device iterator *)

loopcxt_init_iterator(l, flags) ==
    LET it == [ZeroIter EXCEPT !.ncur = -1, !.flags = flags,
                               !.default_check = TRUE]
        l1 == [l EXCEPT !.iter = it]
    IN  IF ~l1.extra_check
        THEN [l1 EXCEPT !.extra_check = TRUE,
                        !.flags = IF ~FlagsLogicalAnd(l1.flags) /\ devLoopIsDir
                                  THEN @ \cup {"DEVSUBDIR"} ELSE @]
        ELSE l1

loopcxt_deinit_iterator(l) ==
    [l EXCEPT !.iter.minors = <<>>, !.iter.procOpen = FALSE,
              !.iter.proc = <<>>, !.iter.done = TRUE]

\* used, were it "the offset was read and is not zero"
DeviceIsUsed_nonzero(o) == o.rc = 0 /\ o.num # 0

\* used = loopcxt_get_offset(lc, NULL) == 0
DeviceIsUsed(o) == o.rc = 0

loopiter_set_device(l, device) ==
    Bind(loopcxt_set_device(l, device), LAMBDA r :
        IF r.rc # 0 THEN [lc |-> r.lc, rc |-> r.rc]
        ELSE IF l.iter.flags \cap {"USED", "FREE"} = {}
        THEN [lc |-> r.lc, rc |-> 0]
        ELSE Bind(loopcxt_get_offset(r.lc), LAMBDA o :
                 IF "USED" \in l.iter.flags /\ DeviceIsUsed(o)
                 THEN [lc |-> o.lc, rc |-> 0]
                 ELSE IF "FREE" \in l.iter.flags /\ ~DeviceIsUsed(o)
                 THEN [lc |-> o.lc, rc |-> 0]
                 ELSE [lc |-> loopcxt_set_device(o.lc, NullArg).lc,
                       rc |-> 1]))

\* sscanf(d_name, "loop%u", &n) == 1 in /dev; strtol() of the whole name with
\* errno still zero in /dev/loop
ParsesAsIndex(e, hasprefix, errnoSet) ==
    IF hasprefix THEN e.kind \in {"node", "part"}
    ELSE e.kind = "node" /\ ~errnoSet

\* the entries readdir() returns for the directory loop_scandir opens
DirListing(hasprefix) ==
    IF hasprefix
    THEN (IF devLoopIsDir THEN <<>> ELSE dirents)
    ELSE (IF devLoopIsDir THEN dirents ELSE <<>>)

RECURSIVE CollectMinors(_, _, _)
CollectMinors(entries, hasprefix, errnoSet) ==
    IF entries = <<>> THEN <<>>
    ELSE LET e == Head(entries)
             keep == /\ e.dtype \in {"BLK", "UNKNOWN", "LNK"}
                     /\ ParsesAsIndex(e, hasprefix, errnoSet)
                     /\ ~(e.n < LOOPDEV_DEFAULT_NNODES)
         IN  (IF keep THEN <<e.n>> ELSE <<>>)
             \o CollectMinors(Tail(entries), hasprefix, errnoSet)

\* cmpnum() answers 0 or 1 and never a negative number, which is not an
\* ordering qsort() is specified for: the array comes back in some order.
QsortOutcomes(ary) ==
    IF ary = <<>> THEN {<<>>}
    ELSE {[i \in 1..Len(ary) |-> ary[p[i]]] : p \in Permutations(1..Len(ary))}

\* the arrays loop_scandir can leave in *ary for this context
loop_scandir(l, errnoSet) ==
    QsortOutcomes(CollectMinors(DirListing("DEVSUBDIR" \notin l.flags),
                                "DEVSUBDIR" \notin l.flags, errnoSet))

IterDone(l, probes) ==
    [lc |-> loopcxt_deinit_iterator(l), rc |-> 1, probes |-> probes]

\* A) rows of /proc/partitions
RECURSIVE TierA(_, _)
TierA(l, probes) ==
    IF ~l.iter.procOpen \/ l.iter.proc = <<>>
    THEN IterDone(l, probes)
    ELSE LET row == Head(l.iter.proc)
             l1 == [l EXCEPT !.iter.proc = Tail(@)]
         IN  IF row.major # LOOPDEV_MAJOR THEN TierA(l1, probes)
             ELSE Bind(loopiter_set_device(l1, NameArg(row.n)),
                       LAMBDA r :
                         IF r.rc = 0
                         THEN [lc |-> r.lc, rc |-> 0,
                               probes |-> Append(probes, row.n)]
                         ELSE TierA(r.lc, Append(probes, row.n)))

\* C) the sorted minors of the directory scan; ncur is already incremented
RECURSIVE TierC(_, _)
TierC(l, probes) ==
    IF l.iter.ncur < l.iter.nminors
    THEN LET n == l.iter.minors[l.iter.ncur + 1]
         IN  Bind(loopiter_set_device(l, NameArg(n)),
                  LAMBDA r :
                    IF r.rc = 0
                    THEN [lc |-> r.lc, rc |-> 0, probes |-> Append(probes, n)]
                    ELSE TierC([r.lc EXCEPT !.iter.ncur = @ + 1],
                               Append(probes, n)))
    ELSE IterDone(l, probes)

ScanAndTierC(l, scan, probes) ==
    LET l1 == IF l.iter.minors = <<>>
              THEN [l EXCEPT !.iter.minors = scan, !.iter.nminors = Len(scan),
                             !.iter.ncur = -1]
              ELSE l
    IN  TierC([l1 EXCEPT !.iter.ncur = @ + 1], probes)

\* B) loop0 .. loop7; ncur is already incremented
RECURSIVE TierB(_, _, _)
TierB(l, scan, probes) ==
    IF l.iter.ncur < LOOPDEV_DEFAULT_NNODES
    THEN LET n == l.iter.ncur
         IN  Bind(loopiter_set_device(l, NameArg(n)),
                  LAMBDA r :
                    IF r.rc = 0
                    THEN [lc |-> r.lc, rc |-> 0, probes |-> Append(probes, n)]
                    ELSE TierB([r.lc EXCEPT !.iter.ncur = @ + 1], scan,
                               Append(probes, n)))
    ELSE ScanAndTierC([l EXCEPT !.iter.default_check = FALSE], scan, probes)

\* loopcxt_next without the branch for LOOPITER_FL_USED
loopcxt_next_classic(l, scan) ==
    IF l.iter.done THEN [lc |-> l, rc |-> 1, probes |-> <<>>]
    ELSE IF l.iter.default_check
    THEN TierB([l EXCEPT !.iter.ncur = @ + 1], scan, <<>>)
    ELSE ScanAndTierC(l, scan, <<>>)

\* loopcxt_next without "if (iter->done) return 1"
loopcxt_next_rescan(l, scan) ==
    IF "USED" \in l.iter.flags
    THEN TierA(IF l.iter.procOpen THEN l
               ELSE [l EXCEPT !.iter.procOpen = TRUE,
                              !.iter.proc = ProcPartitions], <<>>)
    ELSE IF l.iter.default_check
    THEN TierB([l EXCEPT !.iter.ncur = @ + 1], scan, <<>>)
    ELSE ScanAndTierC(l, scan, <<>>)

\* scan is the array loop_scandir returns if this call reaches tier C
loopcxt_next(l, scan) ==
    IF l.iter.done THEN [lc |-> l, rc |-> 1, probes |-> <<>>]
    ELSE IF "USED" \in l.iter.flags
    THEN TierA(IF l.iter.procOpen THEN l
               ELSE [l EXCEPT !.iter.procOpen = TRUE,
                              !.iter.proc = ProcPartitions], <<>>)
    ELSE IF l.iter.default_check
    THEN TierB([l EXCEPT !.iter.ncur = @ + 1], scan, <<>>)
    ELSE ScanAndTierC(l, scan, <<>>)

loopcxt_find_unused(l, scan) ==
    Bind(loopcxt_next(loopcxt_init_iterator(l, {"FREE"}), scan), LAMBDA r :
        [lc |-> loopcxt_deinit_iterator(r.lc), rc |-> r.rc,
         probes |-> r.probes])

----------------------------------------------------------------------------
(* The LOOP_* ioctls as the kernel answers them; err = 0 is success *)

\* access the file system grants on a backing file: "rw", "ro" or "none"
FileAccess(name) ==
    IF name.id = "fRO" THEN "ro"
    ELSE IF name.id = "fGone" THEN "none"
    ELSE "rw"

\* LOOP_SET_FD: binds the file unless the device is bound already
KernelSetFd(d, name, readonly) ==
    IF d.attached THEN [dev |-> d, err |-> EBUSY]
    ELSE [dev |-> [attached |-> TRUE, hasStatus |-> FALSE, backing |-> name,
                   status |-> [ZeroInfo EXCEPT !.lo_flags =
                                IF readonly THEN {"READ_ONLY"} ELSE {}]],
          err |-> 0]

\* LOOP_SET_STATUS64: fails with ENXIO on an unbound device, with the error
\* fail (when not 0) the kernel raises for this request, else stores info
KernelSetStatus(d, info, fail) ==
    IF ~d.attached THEN [dev |-> d, err |-> ENXIO]
    ELSE IF fail # 0 THEN [dev |-> d, err |-> fail]
    ELSE [dev |-> [d EXCEPT !.hasStatus = TRUE,
                            !.status = [info EXCEPT !.lo_flags =
                                (d.status.lo_flags \cap {"READ_ONLY"})
                                \cup (info.lo_flags \cap {"AUTOCLEAR"})]],
          err |-> 0]

\* LOOP_CLR_FD: unbinds the file, ENXIO on an unbound device
KernelClrFd(d) ==
    IF d.attached THEN [dev |-> FreeDev, err |-> 0]
    ELSE [dev |-> d, err |-> ENXIO]

----------------------------------------------------------------------------
(* Bookkeeping of calls *)

\* mode: the mode the backing file was opened in ("": not opened)
IdleCall == [pc |-> "idle", file_fd |-> <<>>, dev_fd |-> NoFd, rc |-> 0,
             ioctls |-> <<>>, mode |-> ""]

\* att.cx[c]: the device the last loopcxt_find_unused of c found (-1: none),
\* the result of the first attach that followed (rc = 1: none yet), the error
\* of its LOOP_SET_FD (-1: not issued) and the file it attached, the result
\* of the first loopcxt_delete_device on that device after a successful
\* attach (del = 1: none yet); prev, prevrc and prevdel are found, rc and del
\* of the discovery before.  att.injected: some
\* LOOP_SET_STATUS64 on a bound device was failed by the kernel.
NoAttempt == [found |-> -1, rc |-> 1, setfd |-> -1, file |-> NullName,
              del |-> 1, prev |-> -1, prevrc |-> 1, prevdel |-> 1]

\* att.staged[c]: the arguments of the latest setter calls of c
NoStaged == [offset |-> 0, sizelimit |-> 0, flags |-> {}, file |-> NullName]

NoRet == [op |-> "none", rc |-> 0, num |-> 0, str |-> NullName, log |-> <<>>,
          path |-> NoPath, after |-> <<>>,
          ioctls |-> <<>>, probes |-> <<>>, arg |-> NullArg,
          kdev |-> FreeDev, file_fd |-> <<>>,
          pre |-> [flags |-> {}, device |-> NoPath, fd |-> NoFd,
                   has_info |-> FALSE, done |-> FALSE]]

\* the kernel state of the device a context is bound to
BoundDev(l) == IF IsLoopPath(l.device) THEN dev[PathIdx(l.device)]
               ELSE FreeDev

\* pre and kdev: the context and the bound device when the call began;
\* after: for loopcxt_get_fd, the log of the loopcxt_get_fd call that
\* returned just before it, headed by "get_fd"
Ret(c, op, rc) ==
    [NoRet EXCEPT !.op = op, !.rc = rc, !.kdev = BoundDev(lc[c]),
                  !.pre = [flags |-> lc[c].flags, device |-> lc[c].device,
                           fd |-> lc[c].fd, has_info |-> lc[c].has_info,
                           done |-> lc[c].iter.done]]

Idle(c) == call[c].pc = "idle"

Env == <<dev, dirents, kernelNew, devLoopIsDir>>

----------------------------------------------------------------------------
(* Actions: binding, getters, setters *)

DeviceArgs == {NullArg, ShortArg} \cup {NameArg(n) : n \in {0, 1}}
              \cup {AbsArg(<<"flat", 0>>), AbsArg(<<"subdir", 1>>)}

SetDevice(c, device) ==
    /\ Idle(c)
    /\ \E r \in {loopcxt_set_device(lc[c], device)} :
           /\ lc' = [lc EXCEPT ![c] = r.lc]
           /\ ret' = [ret EXCEPT ![c] =
                 [Ret(c, "set_device", r.rc) EXCEPT !.arg = device]]
    /\ UNCHANGED <<call, Env, probed, att>>

GetFd(c) ==
    /\ Idle(c)
    /\ \E r \in {loopcxt_get_fd(lc[c])} :
           /\ lc' = [lc EXCEPT ![c] = r.lc]
           /\ ret' = [ret EXCEPT ![c] =
                 [Ret(c, "get_fd", IF r.fd = NoFd THEN -1 ELSE 0)
                     EXCEPT !.log = r.log,
                            !.after = IF ret[c].op = "get_fd"
                                      THEN <<"get_fd">> \o ret[c].log
                                      ELSE <<>>]]
    /\ UNCHANGED <<call, Env, probed, att>>

GetBackingFile(c) ==
    /\ Idle(c)
    /\ \E r \in {loopcxt_get_backing_file(lc[c])} :
           /\ lc' = [lc EXCEPT ![c] = r.lc]
           /\ ret' = [ret EXCEPT ![c] =
                 [Ret(c, "get_backing_file", 0)
                     EXCEPT !.str = r.str, !.log = r.log]]
    /\ UNCHANGED <<call, Env, probed, att>>

GetOffset(c) ==
    /\ Idle(c)
    /\ \E r \in {loopcxt_get_offset(lc[c])} :
           /\ lc' = [lc EXCEPT ![c] = r.lc]
           /\ ret' = [ret EXCEPT ![c] =
                 [Ret(c, "get_offset", r.rc)
                     EXCEPT !.num = r.num, !.log = r.log]]
    /\ UNCHANGED <<call, Env, probed, att>>

GetSizelimit(c) ==
    /\ Idle(c)
    /\ \E r \in {loopcxt_get_sizelimit(lc[c])} :
           /\ lc' = [lc EXCEPT ![c] = r.lc]
           /\ ret' = [ret EXCEPT ![c] =
                 [Ret(c, "get_sizelimit", r.rc)
                     EXCEPT !.num = r.num, !.log = r.log]]
    /\ UNCHANGED <<call, Env, probed, att>>

IsAutoclear(c) ==
    /\ Idle(c)
    /\ \E r \in {loopcxt_is_autoclear(lc[c])} :
           /\ lc' = [lc EXCEPT ![c] = r.lc]
           /\ ret' = [ret EXCEPT ![c] =
                 [Ret(c, "is_autoclear", r.num)
                     EXCEPT !.num = r.num, !.log = r.log]]
    /\ UNCHANGED <<call, Env, probed, att>>

SetOffset(c, offset) ==
    /\ Idle(c)
    /\ lc' = [lc EXCEPT ![c] = loopcxt_set_offset(@, offset)]
    /\ ret' = [ret EXCEPT ![c] = Ret(c, "set_offset", 0)]
    /\ att' = [att EXCEPT !.staged[c].offset = offset]
    /\ UNCHANGED <<call, Env, probed>>

SetSizelimit(c, sizelimit) ==
    /\ Idle(c)
    /\ lc' = [lc EXCEPT ![c] = loopcxt_set_sizelimit(@, sizelimit)]
    /\ ret' = [ret EXCEPT ![c] = Ret(c, "set_sizelimit", 0)]
    /\ att' = [att EXCEPT !.staged[c].sizelimit = sizelimit]
    /\ UNCHANGED <<call, Env, probed>>

SetFlags(c, flags) ==
    /\ Idle(c)
    /\ lc' = [lc EXCEPT ![c] = loopcxt_set_flags(@, flags)]
    /\ ret' = [ret EXCEPT ![c] = Ret(c, "set_flags", 0)]
    /\ att' = [att EXCEPT !.staged[c].flags = flags]
    /\ UNCHANGED <<call, Env, probed>>

SetBackingFile(c, filename) ==
    /\ Idle(c)
    /\ lc' = [lc EXCEPT ![c] = loopcxt_set_backing_file(@, filename)]
    /\ ret' = [ret EXCEPT ![c] = Ret(c, "set_backing_file", 0)]
    /\ att' = [att EXCEPT !.staged[c].file = filename]
    /\ UNCHANGED <<call, Env, probed>>

----------------------------------------------------------------------------
(* Actions: the iterator *)

InitIterator(c, flags) ==
    /\ Idle(c)
    /\ lc' = [lc EXCEPT ![c] = loopcxt_init_iterator(@, flags)]
    /\ ret' = [ret EXCEPT ![c] = Ret(c, "init_iterator", 0)]
    /\ probed' = [probed EXCEPT ![c] = <<>>]
    /\ UNCHANGED <<call, Env, att>>

\* the iterator has to be initialized by loopcxt_init_iterator() (line 357)
NextDevice(c) ==
    /\ Idle(c)
    /\ lc[c].extra_check
    /\ \E errnoSet \in BOOLEAN :
          \E scan \in loop_scandir(lc[c], errnoSet) :
             \E r \in {loopcxt_next(lc[c], scan)} :
                 /\ lc' = [lc EXCEPT ![c] = r.lc]
                 /\ ret' = [ret EXCEPT ![c] =
                       [Ret(c, "next", r.rc) EXCEPT !.probes = r.probes]]
                 /\ probed' = [probed EXCEPT ![c] = @ \o r.probes]
    /\ UNCHANGED <<call, Env, att>>

DeinitIterator(c) ==
    /\ Idle(c)
    /\ lc' = [lc EXCEPT ![c] = loopcxt_deinit_iterator(@)]
    /\ ret' = [ret EXCEPT ![c] = Ret(c, "deinit_iterator", 0)]
    /\ UNCHANGED <<call, Env, probed, att>>

FindUnused(c) ==
    /\ Idle(c)
    /\ \E errnoSet \in BOOLEAN :
          \E scan \in loop_scandir(loopcxt_init_iterator(lc[c], {"FREE"}),
                                   errnoSet) :
             \E r \in {loopcxt_find_unused(lc[c], scan)} :
                 /\ lc' = [lc EXCEPT ![c] = r.lc]
                 /\ ret' = [ret EXCEPT ![c] =
                       [Ret(c, "find_unused", r.rc)
                           EXCEPT !.probes = r.probes]]
                 /\ probed' = [probed EXCEPT ![c] = r.probes]
                 /\ att' = [att EXCEPT !.cx[c] =
                       [found |-> IF r.rc = 0 THEN r.probes[Len(r.probes)]
                                  ELSE -1,
                        rc |-> 1, setfd |-> -1, file |-> NullName,
                        del |-> 1, prev |-> @.found, prevrc |-> @.rc,
                        prevdel |-> @.del]]
    /\ UNCHANGED <<call, Env>>

----------------------------------------------------------------------------
(* Actions: attach (loopcxt_setup_device, one action per device ioctl),    *)
(* detach and teardown                                                     *)

\* errors LOOP_SET_STATUS64 can raise on a bound device (0: none)
StatusFailures == {0, EPERM, EINVAL}

\* the return of loopcxt_setup_device: file_fd is what is left of the
\* descriptor of the backing file, d the device as the call leaves it
SetupReturn(c, l, rc, ioctls, file_fd, d) ==
    /\ lc' = [lc EXCEPT ![c] = l]
    /\ call' = [call EXCEPT ![c] = IdleCall]
    /\ ret' = [ret EXCEPT ![c] =
          [Ret(c, "setup_device", rc) EXCEPT !.ioctls = ioctls, !.kdev = d,
                                             !.file_fd = file_fd]]
    /\ att' = [att EXCEPT !.cx[c] =
          IF @.found >= 0 /\ @.rc = 1
          THEN [@ EXCEPT !.rc = rc, !.file = l.filename,
                         !.setfd = IF ioctls = <<>> THEN -1
                                   ELSE ioctls[1][2]]
          ELSE @]

\* lines 689-725: the checks, both opens and LOOP_SET_FD
SetupBegin(c) ==
    /\ Idle(c)
    /\ LET l == lc[c]
           want == IF "RDONLY" \in l.flags THEN "O_RDONLY" ELSE "O_RDWR"
           acc == FileAccess(l.filename)
           mode == IF want = "O_RDWR" /\ acc = "ro" THEN "O_RDONLY" ELSE want
           l1 == IF mode = "O_RDONLY"
                 THEN [l EXCEPT !.flags = @ \cup {"RDONLY"},
                                !.info.lo_flags = @ \cup {"READ_ONLY"}]
                 ELSE [l EXCEPT !.flags = @ \cup {"RDWR"}]
           f == loopcxt_get_fd(l1)
           n == FdIdx(f.fd)
           k == KernelSetFd(dev[n], l.filename,
                            mode = "O_RDONLY" \/ f.fd[2] = "O_RDONLY")
       IN  IF l.device = NoPath \/ l.filename = NullName
           THEN SetupReturn(c, l, -EINVAL, <<>>, <<>>, BoundDev(l))
                /\ UNCHANGED dev
           ELSE IF acc = "none"
           THEN SetupReturn(c, l, -ENOENT, <<>>, <<>>, BoundDev(l))
                /\ UNCHANGED dev
           ELSE IF f.fd = NoFd
           THEN SetupReturn(c, f.lc, -ENOENT, <<>>, <<>>, BoundDev(l))
                /\ UNCHANGED dev
           ELSE /\ lc' = [lc EXCEPT ![c] = f.lc]
                /\ dev' = [dev EXCEPT ![n] = k.dev]
                /\ call' = [call EXCEPT ![c] =
                      [pc |-> IF k.err = 0 THEN "status" ELSE "err",
                       file_fd |-> IF k.err = 0 THEN <<>>
                                   ELSE <<l.filename, mode>>,
                       dev_fd |-> f.fd,
                       rc |-> IF k.err = 0 THEN -1 ELSE -k.err,
                       ioctls |-> << <<"LOOP_SET_FD", k.err>> >>,
                       mode |-> mode]]
                /\ UNCHANGED <<ret, att>>
    /\ UNCHANGED <<dirents, kernelNew, devLoopIsDir, probed>>

\* lines 727-733: LOOP_SET_STATUS64 and the successful return
SetupStatus(c) ==
    /\ call[c].pc = "status"
    /\ \E fail \in StatusFailures :
          LET n == FdIdx(call[c].dev_fd)
              k == KernelSetStatus(dev[n], lc[c].info, fail)
              ioctls == Append(call[c].ioctls,
                               <<"LOOP_SET_STATUS64", k.err, lc[c].info>>)
          IN  /\ dev' = [dev EXCEPT ![n] = k.dev]
              /\ IF k.err = 0
                 THEN SetupReturn(c, [lc[c] EXCEPT !.info = ZeroInfo,
                                                   !.has_info = FALSE],
                                  0, ioctls, call[c].file_fd, k.dev)
                 ELSE /\ call' = [call EXCEPT ![c].pc = "err",
                                              ![c].ioctls = ioctls]
                      /\ att' = [att EXCEPT !.injected =
                                    @ \/ (dev[n].attached /\ fail # 0)]
                      /\ UNCHANGED <<lc, ret>>
    /\ UNCHANGED <<dirents, kernelNew, devLoopIsDir, probed>>

\* an err: label that only closes the backing file
ErrLabelIoctls_none(cl) == <<>>

\* the ioctls the err: label issues for a call with these locals
ErrLabelIoctls(cl) ==
    IF cl.dev_fd # NoFd THEN <<"LOOP_CLR_FD">> ELSE <<>>

\* lines 734-740: the err: label
SetupErr(c) ==
    /\ call[c].pc = "err"
    /\ LET n == FdIdx(call[c].dev_fd)
           todo == ErrLabelIoctls(call[c])
           \* LOOP_CLR_FD as often as todo says
           after[i \in 0..Len(todo)] ==
               IF i = 0 THEN [dev |-> dev[n], err |-> 0]
               ELSE KernelClrFd(after[i - 1].dev)
           ioctls == call[c].ioctls
                     \o [i \in 1..Len(todo) |-> <<todo[i], after[i].err>>]
       IN  /\ dev' = [dev EXCEPT ![n] = after[Len(todo)].dev]
           /\ SetupReturn(c, lc[c], call[c].rc, ioctls, <<>>,
                          after[Len(todo)].dev)
    /\ UNCHANGED <<dirents, kernelNew, devLoopIsDir, probed>>

\* loopcxt_delete_device that issues LOOP_CLR_FD a second time and returns
\* the error of the second
loopcxt_delete_device_twice(l) ==
    Bind(loopcxt_get_fd(l), LAMBDA f :
        IF f.fd = NoFd
        THEN [lc |-> f.lc, rc |-> -EINVAL, ioctls |-> <<>>,
              kdev |-> BoundDev(l)]
        ELSE Bind(KernelClrFd(dev[FdIdx(f.fd)]), LAMBDA k1 :
                 Bind(KernelClrFd(k1.dev), LAMBDA k :
                     [lc |-> f.lc, rc |-> -k.err,
                      ioctls |-> << <<"LOOP_CLR_FD", k1.err>>,
                                    <<"LOOP_CLR_FD", k.err>> >>,
                      kdev |-> k.dev])))

\* kdev is the device as the call leaves it
loopcxt_delete_device(l) ==
    Bind(loopcxt_get_fd(l), LAMBDA f :
        IF f.fd = NoFd
        THEN [lc |-> f.lc, rc |-> -EINVAL, ioctls |-> <<>>,
              kdev |-> BoundDev(l)]
        ELSE Bind(KernelClrFd(dev[FdIdx(f.fd)]), LAMBDA k :
                 [lc |-> f.lc, rc |-> -k.err,
                  ioctls |-> << <<"LOOP_CLR_FD", k.err>> >>,
                  kdev |-> k.dev]))

DeleteDevice(c) ==
    /\ Idle(c)
    /\ \E r \in {loopcxt_delete_device(lc[c])} :
          /\ lc' = [lc EXCEPT ![c] = r.lc]
          /\ dev' = IF r.lc.fd = NoFd THEN dev
                    ELSE [dev EXCEPT ![FdIdx(r.lc.fd)] = r.kdev]
          /\ ret' = [ret EXCEPT ![c] =
                [Ret(c, "delete_device", r.rc) EXCEPT !.ioctls = r.ioctls,
                                                      !.kdev = r.kdev]]
          /\ att' = [att EXCEPT !.cx[c].del =
                IF /\ @ = 1 /\ att.cx[c].rc = 0 /\ att.cx[c].found >= 0
                   /\ r.lc.fd # NoFd /\ FdIdx(r.lc.fd) = att.cx[c].found
                THEN r.rc ELSE @]
    /\ UNCHANGED <<call, dirents, kernelNew, devLoopIsDir, probed>>

loopcxt_deinit(l) ==
    loopcxt_deinit_iterator(
        loopcxt_set_device([l EXCEPT !.filename = NullName], NullArg).lc)

Deinit(c) ==
    /\ Idle(c)
    /\ lc' = [lc EXCEPT ![c] = loopcxt_deinit(@)]
    /\ ret' = [ret EXCEPT ![c] = Ret(c, "deinit", 0)]
    /\ UNCHANGED <<call, Env, probed, att>>

----------------------------------------------------------------------------
(* Initial states *)

fA == MkName("fA", 10)
fB == MkName("fB", 12)
fRO == MkName("fRO", 10)

\* a device some earlier losetup attached to fB at offset o
AttachedDev(o) ==
    [attached |-> TRUE, hasStatus |-> TRUE, backing |-> fB,
     status |-> [ZeroInfo EXCEPT !.lo_offset = o,
                                 !.lo_file_name = StrncpyName(fB)]]

Node(n) == Dirent("node", n, "BLK")

\* Contexts cs are freshly initialised with flags from pool[c]; the others
\* stay zeroed and are never used.
InitWith(cs, pool, layouts, dirs, attachable) ==
    /\ kernelNew \in BOOLEAN
    /\ devLoopIsDir \in layouts
    /\ dirents \in dirs
    /\ \E inuse \in SUBSET attachable : \E o \in Offsets :
          dev = [n \in AllIdx |->
                    IF n \in inuse /\ NodeExists(<<Layout, n>>)
                    THEN AttachedDev(o) ELSE FreeDev]
    /\ \E fl \in [cs -> SUBSET LOOPDEV_FL] :
          /\ \A c \in cs : fl[c] \in pool[c]
          /\ lc = [c \in Ctxs |-> IF c \in cs THEN loopcxt_init(fl[c])
                                  ELSE ZeroCxt]
    /\ call = [c \in Ctxs |-> IdleCall]
    /\ ret = [c \in Ctxs |-> NoRet]
    /\ probed = [c \in Ctxs |-> <<>>]
    /\ att = [injected |-> FALSE, cx |-> [c \in Ctxs |-> NoAttempt],
              staged |-> [c \in Ctxs |-> NoStaged]]

----------------------------------------------------------------------------
(* Spec: one context; binding, getters, staging and detach *)

InitFlagPool == {{}, {"NOSYSFS"}, {"NOIOCTL"}, {"NOSYSFS", "NOIOCTL"},
                 {"RDONLY"}, {"DEVSUBDIR"}}

Init == InitWith({1}, [c \in Ctxs |-> InitFlagPool], BOOLEAN,
                 {<<Node(0), Node(1)>>}, {1})

Next ==
    \/ \E a \in DeviceArgs : SetDevice(1, a)
    \/ GetFd(1)
    \/ GetBackingFile(1)
    \/ GetOffset(1)
    \/ GetSizelimit(1)
    \/ IsAutoclear(1)
    \/ \E o \in Offsets : SetOffset(1, o)
    \/ SetBackingFile(1, fA)
    \/ DeleteDevice(1)
    \/ Deinit(1)

Spec == Init /\ [][Next]_vars

----------------------------------------------------------------------------
(* Properties of the getters and of the binding, checked under Spec *)

HasEv(log, e) == \E i \in 1..Len(log) : log[i] = e

GetterOps == {"get_backing_file", "get_offset", "get_sizelimit",
              "is_autoclear"}
SysfsEvents == {"devno_ok", "devno_fail", "sysfs_ok", "sysfs_fail"}
IoctlEvents == {"open_ok", "open_fail", "cached_info",
                "LOOP_GET_STATUS64_ok", "LOOP_GET_STATUS64_fail"}

\* neither source produced a value for the call r
SourcesFailed(r) ==
    /\ ~HasEv(r.log, "sysfs_ok")
    /\ \/ "NOIOCTL" \in r.pre.flags
       \/ HasEv(r.log, "open_fail")
       \/ HasEv(r.log, "LOOP_GET_STATUS64_fail")

\* C8: when the attribute source is disabled or fails and control calls are
\* disabled or fail, the offset, size-limit and autoclear getters called on a
\* bound context report failure (a negative return), never a value such as 0.
C8_GettersReportFailure ==
    \A c \in Ctxs :
        (/\ ret[c].op \in {"get_offset", "get_sizelimit", "is_autoclear"}
         /\ ret[c].pre.device # NoPath
         /\ SourcesFailed(ret[c]))
        => ret[c].rc < 0

\* the value the call r returned is the one the attribute source held
ReturnedSysfsValue(r) ==
    CASE r.op = "get_backing_file" -> r.str = r.kdev.backing
      [] r.op = "get_offset" -> r.rc = 0 /\ r.num = r.kdev.status.lo_offset
      [] r.op = "get_sizelimit" ->
            r.rc = 0 /\ r.num = r.kdev.status.lo_sizelimit
      [] r.op = "is_autoclear" ->
            r.num = AutoclearBit(r.kdev.status.lo_flags)

\* C9: every getter consults the attribute source first when it is enabled;
\* when that succeeds the getter returns its value, opens no device and uses
\* no status record; the control-call path is used only when the attribute
\* source is disabled or failed and control calls are enabled.
C9_SysfsFirst ==
    \A c \in Ctxs :
        LET r == ret[c]
        IN  (r.op \in GetterOps /\ Idle(c)) =>
              /\ ("NOSYSFS" \notin r.pre.flags /\ r.pre.device # NoPath)
                 => (r.log # <<>> /\ r.log[1] \in SysfsEvents)
              /\ HasEv(r.log, "sysfs_ok")
                 => /\ \A i \in 1..Len(r.log) : r.log[i] \notin IoctlEvents
                    /\ lc[c].fd = r.pre.fd
                    /\ ReturnedSysfsValue(r)
              /\ (\E i \in 1..Len(r.log) : r.log[i] \in IoctlEvents)
                 => /\ "NOIOCTL" \notin r.pre.flags
                    /\ \/ "NOSYSFS" \in r.pre.flags
                       \/ HasEv(r.log, "devno_fail")
                       \/ HasEv(r.log, "sysfs_fail")

\* a getter was served by the attribute source although control calls were
\* enabled and the device was not open
C9_Witness ==
    /\ ret[1].op = "get_offset"
    /\ HasEv(ret[1].log, "sysfs_ok")
    /\ "NOIOCTL" \notin ret[1].pre.flags
    /\ ret[1].pre.fd = NoFd

\* C10: every loopcxt_set_device leaves the context without an open
\* descriptor and without a valid cached status, so an open descriptor always
\* belongs to the current device path and a valid cache always comes with such
\* a descriptor; after set_device(NULL) path, descriptor, cache and sysfs
\* handle are as loopcxt_init leaves them.
C10_RebindInvalidates ==
    \A c \in Ctxs :
        /\ (ret[c].op = "set_device" /\ Idle(c))
           => (lc[c].fd = NoFd /\ ~lc[c].has_info)
        /\ lc[c].fd # NoFd => lc[c].fd[1] = lc[c].device
        /\ lc[c].has_info => lc[c].fd # NoFd
        /\ (ret[c].op = "set_device" /\ Idle(c) /\ ret[c].arg = NullArg)
           => /\ lc[c].device = ZeroCxt.device
              /\ lc[c].fd = ZeroCxt.fd
              /\ lc[c].has_info = ZeroCxt.has_info
              /\ lc[c].sysfs = ZeroCxt.sysfs

\* set_device(NULL) ran on a bound context with an open descriptor and a
\* valid cached status
C10_Witness ==
    /\ ret[1].op = "set_device"
    /\ ret[1].arg = NullArg
    /\ ret[1].pre.device # NoPath
    /\ ret[1].pre.fd # NoFd
    /\ ret[1].pre.has_info

----------------------------------------------------------------------------
(* SpecIter: one context driving the iterator over every small directory *)

ExtraEntries == {Node(8), Node(9), Dirent("part", 9, "BLK"),
                 Dirent("part", 8, "REG")}

\* directories: loop0 and loop1, then up to MaxDirLen further entries with
\* different names, in any readdir order
IterDirs ==
    {<<Node(0), Node(1)>> \o x :
        x \in {y \in UNION {[1..k -> ExtraEntries] : k \in 0..MaxDirLen} :
                  \A i, j \in 1..Len(y) : i # j => y[i] # y[j]}}

IterFlagPool == {{}, {"NOSYSFS"}, {"DEVSUBDIR"}}

InitIter == InitWith({1}, [c \in Ctxs |-> IterFlagPool], BOOLEAN, IterDirs,
                     {1, 9})

NextIter ==
    \/ \E fl \in SUBSET LOOPITER_FL : InitIterator(1, fl)
    \/ NextDevice(1)

SpecIter == InitIter /\ [][NextIter]_vars

\* the offset of loop<n> can be read through a source the context may use
OffsetReadable(l, n) ==
    /\ NodeExists(ComposePath(l.flags, NameArg(n)))
    /\ dev[n].attached
    /\ \/ "NOSYSFS" \notin l.flags /\ kernelNew
       \/ "NOIOCTL" \notin l.flags

Last(q) == q[Len(q)]

\* the candidates the call r rejected
Rejected(r) == {r.probes[i] : i \in 1..(Len(r.probes) - (IF r.rc = 0 THEN 1 ELSE 0))}

\* the context is bound to loop<n>
BoundTo(l, n) == l.device = ComposePath(l.flags, NameArg(n))

\* C5 as stated: with the "used" flag a candidate is accepted iff its offset
\* is readable and not zero, with the "free" flag iff that is false; a
\* rejected candidate leaves the context unbound.
C5_UsedIffOffsetNonZero ==
    \A c \in Ctxs :
        LET r == ret[c]
            l == lc[c]
            used(n) == OffsetReadable(l, n) /\ dev[n].status.lo_offset # 0
        IN  (r.op = "next" /\ ~r.pre.done /\ Cardinality(l.iter.flags) = 1)
            => /\ r.rc = 0 =>
                    /\ BoundTo(l, Last(r.probes))
                    /\ ("USED" \in l.iter.flags) = used(Last(r.probes))
               /\ \A n \in Rejected(r) : ("USED" \in l.iter.flags) = ~used(n)
               /\ (r.rc = 1 /\ r.probes # <<>>) => l.device = NoPath

\* C5 amended: with the "used" flag a candidate is accepted iff its offset is
\* readable (loopcxt_get_offset succeeds), whatever its value; with the "free"
\* flag iff it is not readable; a rejected candidate leaves the context
\* unbound.
C5_UsedIffOffsetReadable ==
    \A c \in Ctxs :
        LET r == ret[c]
            l == lc[c]
        IN  (r.op = "next" /\ ~r.pre.done /\ Cardinality(l.iter.flags) = 1)
            => /\ r.rc = 0 =>
                    /\ BoundTo(l, Last(r.probes))
                    /\ ("USED" \in l.iter.flags)
                       = OffsetReadable(l, Last(r.probes))
               /\ \A n \in Rejected(r) :
                    ("USED" \in l.iter.flags) = ~OffsetReadable(l, n)
               /\ (r.rc = 1 /\ r.probes # <<>>)
                  => (l.device = NoPath /\ l.fd = NoFd)

\* the "used" filter accepted a device whose offset is readable and zero
C5_Witness ==
    /\ ret[1].op = "next"
    /\ ret[1].rc = 0
    /\ lc[1].iter.flags = {"USED"}
    /\ OffsetReadable(lc[1], Last(ret[1].probes))
    /\ dev[Last(ret[1].probes)].status.lo_offset = 0

\* C6: whenever loopcxt_next returns 1 the context is unbound: the device
\* path is empty and no device descriptor is open.
C6_EndLeavesUnbound ==
    \A c \in Ctxs :
        (ret[c].op = "next" /\ ret[c].rc = 1 /\ ~ret[c].pre.done)
        => (lc[c].device = NoPath /\ lc[c].fd = NoFd)

\* indexes of 8 and above that the entries of the scanned directory name
NamedByScan(l) ==
    LET hasprefix == "DEVSUBDIR" \notin l.flags
        es == DirListing(hasprefix)
    IN  {es[i].n : i \in {j \in 1..Len(es) :
                            /\ es[j].dtype \in {"BLK", "UNKNOWN", "LNK"}
                            /\ es[j].kind \in
                                 (IF hasprefix THEN {"node", "part"}
                                  ELSE {"node"})
                            /\ es[j].n >= LOOPDEV_DEFAULT_NNODES}}

Ascending(q) == \A i, j \in 1..Len(q) : i < j => q[i] < q[j]

\* C7: under the "free" filter, advancing until termination probes every
\* index 0..7 and every index the directory scan finds, each at most once:
\* first 0..7 in ascending order, then the scanned indexes in ascending order.
C7_FreeScanOrder ==
    \A c \in Ctxs :
        (/\ ret[c].op = "next" /\ ret[c].rc = 1 /\ ~ret[c].pre.done
         /\ lc[c].iter.flags = {"FREE"})
        => /\ Len(probed[c]) >= LOOPDEV_DEFAULT_NNODES
           /\ SubSeq(probed[c], 1, LOOPDEV_DEFAULT_NNODES)
              = [i \in 1..LOOPDEV_DEFAULT_NNODES |-> i - 1]
           /\ LET tail == SubSeq(probed[c], LOOPDEV_DEFAULT_NNODES + 1,
                                 Len(probed[c]))
                  found == {tail[i] : i \in 1..Len(tail)}
              IN  /\ Ascending(tail)
                  /\ \/ found = NamedByScan(lc[c])
                     \/ "DEVSUBDIR" \in lc[c].flags /\ found = {}

----------------------------------------------------------------------------
(* SpecAttach: two processes, each running test_loop_setup(filename, NULL)  *)
(* on a context of its own; their ioctls interleave.  The local rc of       *)
(* test_loop_setup is ret[c].rc.                                            *)

\* the filename arguments the processes may be started with
StagedBy(c) == IF c = 1 THEN {fA, fRO} ELSE {fB}

\* loopcxt_init(&lc, 0)
InitAttach == InitWith(Ctxs, [c \in Ctxs |-> {{}}], BOOLEAN,
                       {<<Node(0), Node(1)>>}, {1})

\* lines 978-979
TestStage(c) ==
    /\ ret[c].op = "none"
    /\ \E f \in StagedBy(c) : SetBackingFile(c, f)

\* lines 988-993, on entry and after "device stolen...trying again"
TestFindUnused(c) ==
    /\ \/ ret[c].op = "set_backing_file"
       \/ ret[c].op = "setup_device" /\ ret[c].rc = -EBUSY
    /\ FindUnused(c)

\* line 995
TestSetup(c) ==
    /\ ret[c].op = "find_unused"
    /\ ret[c].rc = 0
    /\ SetupBegin(c)

\* lines 996-997 and 1006
TestDeinit(c) ==
    /\ ret[c].op = "setup_device"
    /\ ret[c].rc = 0
    /\ Deinit(c)

NextAttach ==
    \E c \in Ctxs :
        \/ TestStage(c)
        \/ TestFindUnused(c)
        \/ TestSetup(c)
        \/ SetupStatus(c)
        \/ SetupErr(c)
        \/ TestDeinit(c)

SpecAttach == InitAttach /\ [][NextAttach]_vars

----------------------------------------------------------------------------
(* Properties of the attach protocol, checked under SpecAttach *)

\* the error of the first ioctl named name in the log, -1 if there is none
IoctlErr(ioctls, name) ==
    IF \E i \in 1..Len(ioctls) : ioctls[i][1] = name
    THEN ioctls[CHOOSE i \in 1..Len(ioctls) :
                   /\ ioctls[i][1] = name
                   /\ \A j \in 1..(i - 1) : ioctls[j][1] # name][2]
    ELSE -1

IoctlCount(ioctls, name) ==
    Cardinality({i \in 1..Len(ioctls) : ioctls[i][1] = name})

\* C1: when LOOP_SET_FD succeeded and LOOP_SET_STATUS64 failed, exactly one
\* LOOP_CLR_FD is issued before loopcxt_setup_device returns, and the device
\* is not left bound to a file without a status.
C1_RollbackIssuedOnce ==
    \A c \in Ctxs :
        LET r == ret[c]
        IN  (/\ r.op = "setup_device"
             /\ IoctlErr(r.ioctls, "LOOP_SET_FD") = 0
             /\ IoctlErr(r.ioctls, "LOOP_SET_STATUS64") > 0)
            => /\ IoctlCount(r.ioctls, "LOOP_CLR_FD") = 1
               /\ ~(r.kdev.attached /\ ~r.kdev.hasStatus)

\* an attach returned after its LOOP_SET_STATUS64 failed with EINVAL on the
\* device it had bound
C1_Witness ==
    /\ ret[1].op = "setup_device"
    /\ Len(ret[1].ioctls) = 3
    /\ ret[1].ioctls[1] = <<"LOOP_SET_FD", 0>>
    /\ ret[1].ioctls[2][1] = "LOOP_SET_STATUS64"
    /\ ret[1].ioctls[2][2] = EINVAL

\* C2: when LOOP_SET_STATUS64 fails with error E after a successful
\* LOOP_SET_FD, loopcxt_setup_device returns -E.
C2_ReturnsStatusError ==
    \A c \in Ctxs :
        LET r == ret[c]
        IN  (/\ r.op = "setup_device"
             /\ IoctlErr(r.ioctls, "LOOP_SET_FD") = 0
             /\ IoctlErr(r.ioctls, "LOOP_SET_STATUS64") > 0)
            => r.rc = -IoctlErr(r.ioctls, "LOOP_SET_STATUS64")

\* C3: when LOOP_SET_FD fails with error E, loopcxt_setup_device closes the
\* backing file, returns -E and issues neither LOOP_CLR_FD nor
\* LOOP_SET_STATUS64 on the device.
C3_FailedSetFdLeavesDevice ==
    \A c \in Ctxs :
        LET r == ret[c]
        IN  (r.op = "setup_device" /\ IoctlErr(r.ioctls, "LOOP_SET_FD") > 0)
            => /\ r.rc = -IoctlErr(r.ioctls, "LOOP_SET_FD")
               /\ r.file_fd = <<>>
               /\ IoctlCount(r.ioctls, "LOOP_CLR_FD") = 0
               /\ IoctlCount(r.ioctls, "LOOP_SET_STATUS64") = 0

\* both contexts discovered device d as free and the attach of each on d has
\* issued its LOOP_SET_FD and returned
RaceOver(d) ==
    \A c \in Ctxs : /\ att.cx[c].found = d
                    /\ att.cx[c].setfd # -1
                    /\ att.cx[c].rc # 1

\* C4: when two contexts discovered the same free device and both ran
\* loopcxt_setup_device on it (and the kernel refused no LOOP_SET_STATUS64 of
\* its own accord), exactly one attach succeeded and the other returned
\* -EBUSY, the device stays attached to the winner's file, and the next
\* loopcxt_find_unused of a context that got -EBUSY yields another device.
C4_RaceHasOneWinner ==
    ~att.injected =>
        /\ \A d \in AllIdx : RaceOver(d) =>
              \E w \in Ctxs :
                 /\ att.cx[w].rc = 0
                 /\ \A l \in Ctxs \ {w} : att.cx[l].rc = -EBUSY
                 /\ dev[d].attached
                 /\ dev[d].backing = att.cx[w].file
        /\ \A l \in Ctxs :
              (att.cx[l].prevrc = -EBUSY /\ att.cx[l].found >= 0)
              => att.cx[l].found # att.cx[l].prev

\* the status records the LOOP_SET_STATUS64 calls of c's last
\* loopcxt_setup_device passed to the kernel (line 727)
StatusSent(c) ==
    IF ret[c].op # "setup_device" THEN {}
    ELSE {ret[c].ioctls[i][3] : i \in {j \in 1..Len(ret[c].ioctls) :
                                          ret[c].ioctls[j][1] = "LOOP_SET_STATUS64"}}

\* the record carries what the setters staged; LO_FLAGS_READ_ONLY is set by
\* loopcxt_setup_device itself (line 707) and is left out of the comparison
CarriesStaged(info, st) ==
    /\ info.lo_file_name = StrncpyName(st.file)
    /\ info.lo_offset = st.offset
    /\ info.lo_sizelimit = st.sizelimit
    /\ info.lo_flags \ {"READ_ONLY"} = st.flags \ {"READ_ONLY"}

\* C11: the status record written by the LOOP_SET_STATUS64 of
\* loopcxt_setup_device carries exactly the offset, size limit, flags and
\* backing-file name most recently staged by the setters, whatever
\* loopcxt_find_unused calls ran on the context between staging and attach.
C11_StatusCarriesStaged ==
    \A c \in Ctxs : \A info \in StatusSent(c) :
        CarriesStaged(info, att.staged[c])

----------------------------------------------------------------------------
(* SpecRound: one context stages, attaches, reads back and detaches *)

\* lengths of the staged backing-file names around LO_NAME_SIZE; the names
\* of one id are prefixes of one another
NameLens == {LO_NAME_SIZE - 3, LO_NAME_SIZE - 2, LO_NAME_SIZE - 1,
             LO_NAME_SIZE}

RoundNames == {MkName("fA", n) : n \in NameLens}

\* /dev/loop0 may be in use by someone else; the context starts with flags 0,
\* so that the kernel version decides between sysfs and control calls
InitRound == InitWith({1}, [c \in Ctxs |-> {{}}], {FALSE},
                      {<<Node(0), Node(1)>>}, {0})

\* the calls of a program that stages a backing file, an offset and the
\* flags, discovers a free device, attaches (discovering again when the
\* attach fails), reads the attributes back, detaches and starts over from
\* the discovery; Last1 is the call that returned last
Last1(ops) == ret[1].op \in ops

RoundStageFile == Last1({"none"}) /\ \E f \in RoundNames : SetBackingFile(1, f)

RoundStageOffset ==
    Last1({"set_backing_file"}) /\ \E o \in Offsets : SetOffset(1, o)

RoundStageFlags ==
    Last1({"set_offset"}) /\ \E fl \in SUBSET {"AUTOCLEAR"} : SetFlags(1, fl)

RoundFindUnused ==
    /\ \/ Last1({"set_flags", "delete_device"})
       \/ Last1({"setup_device"}) /\ ret[1].rc # 0
    /\ FindUnused(1)

RoundSetup == Last1({"find_unused"}) /\ ret[1].rc = 0 /\ SetupBegin(1)

RoundRead ==
    /\ \/ Last1({"setup_device"}) /\ ret[1].rc = 0
       \/ Last1(GetterOps)
    /\ \/ GetBackingFile(1)
       \/ GetOffset(1)
       \/ IsAutoclear(1)

RoundDelete ==
    /\ Last1({"setup_device", "find_unused"} \cup GetterOps)
    /\ DeleteDevice(1)

NextRound ==
    \/ RoundStageFile
    \/ RoundStageOffset
    \/ RoundStageFlags
    \/ RoundFindUnused
    \/ RoundSetup
    \/ SetupStatus(1)
    \/ SetupErr(1)
    \/ RoundRead
    \/ RoundDelete

SpecRound == InitRound /\ [][NextRound]_vars

----------------------------------------------------------------------------
(* Properties of the round trip, checked under SpecRound *)

\* the device the call r began on is attached and holds the values staged
\* last: the attach that bound it sent them unaltered
HoldsStaged(r, st) ==
    /\ st.file # NullName
    /\ r.kdev.attached
    /\ r.kdev.hasStatus
    /\ r.kdev.backing = st.file
    /\ CarriesStaged(r.kdev.status, st)

\* the call r got its value from sysfs, or from LOOP_GET_STATUS64
ViaSysfs(r) == HasEv(r.log, "sysfs_ok")
ViaIoctl(r) == HasEv(r.log, "LOOP_GET_STATUS64_ok") \/ HasEv(r.log, "cached_info")

\* C12: after staging backing file, offset and flags and a successful
\* loopcxt_setup_device, reading backing file, offset and autoclear back on
\* the same context yields the staged values, both when the attribute source
\* answers and when the control-call path answers.
C12_RoundTrip ==
    LET r == ret[1]
        st == att.staged[1]
    IN  (HoldsStaged(r, st) /\ (ViaSysfs(r) \/ ViaIoctl(r))) =>
           /\ r.op = "get_backing_file" => r.str = st.file
           /\ r.op = "get_offset" => r.rc = 0 /\ r.num = st.offset
           /\ r.op = "is_autoclear" =>
                 (r.num # 0) = ("AUTOCLEAR" \in st.flags)

----------------------------------------------------------------------------
(* Search by backing file *)

\* line 871, with "!backing" as the whole test
NameDiffers_nullonly(backing, filename) == backing = NullName

\* line 871: !backing || strcmp(backing, filename)
NameDiffers(backing, filename) == backing = NullName \/ backing # filename

\* lines 866-887: the loop over loopcxt_next; probes are the candidates the
\* iterator probed so far
RECURSIVE FindLoop(_, _, _, _, _)
FindLoop(l, filename, offset, flags, probes) ==
    Bind(loopcxt_next(l, <<>>), LAMBDA r :
        IF r.rc # 0
        THEN [lc |-> r.lc, rc |-> r.rc, probes |-> probes \o r.probes]
        ELSE Bind(loopcxt_get_backing_file(r.lc), LAMBDA b :
            IF NameDiffers(b.str, filename)
            THEN FindLoop(b.lc, filename, offset, flags, probes \o r.probes)
            ELSE IF "OFFSET" \in flags
            THEN Bind(loopcxt_get_offset(b.lc), LAMBDA o :
                     IF o.rc # 0 \/ offset # o.num
                     THEN FindLoop(o.lc, filename, offset, flags,
                                   probes \o r.probes)
                     ELSE [lc |-> o.lc, rc |-> 0,
                           probes |-> probes \o r.probes])
            ELSE [lc |-> b.lc, rc |-> 0, probes |-> probes \o r.probes]))

loopcxt_find_by_backing_file(l, filename, offset, flags) ==
    IF filename = NullName
    THEN [lc |-> l, rc |-> -EINVAL, probes |-> <<>>]
    ELSE Bind(FindLoop(loopcxt_init_iterator(l, {"USED"}), filename, offset,
                       flags, <<>>),
              LAMBDA r : [r EXCEPT !.lc = loopcxt_deinit_iterator(@)])

\* NULL is NoPath
loopcxt_strdup_device(l) == l.device

\* the context is the function's local variable; path is the result
loopdev_find_by_backing_file(filename, offset, flags) ==
    IF filename = NullName
    THEN [lc |-> ZeroCxt, path |-> NoPath, rc |-> -EINVAL, probes |-> <<>>]
    ELSE Bind(loopcxt_find_by_backing_file(loopcxt_init({}), filename,
                                           offset, flags),
              LAMBDA r : [lc |-> loopcxt_deinit(r.lc),
                          path |-> IF r.rc # 0
                                   THEN loopcxt_strdup_device(r.lc)
                                   ELSE NoPath,
                          rc |-> r.rc, probes |-> r.probes])

FindArg(filename, offset, flags) == <<"find", filename, offset, flags>>

FindByBackingFile(c, filename, offset, flags) ==
    /\ Idle(c)
    /\ \E r \in {loopcxt_find_by_backing_file(lc[c], filename, offset, flags)} :
          /\ lc' = [lc EXCEPT ![c] = r.lc]
          /\ ret' = [ret EXCEPT ![c] =
                [Ret(c, "find_by_backing_file", r.rc)
                    EXCEPT !.probes = r.probes,
                           !.arg = FindArg(filename, offset, flags)]]
          /\ probed' = [probed EXCEPT ![c] = r.probes]
    /\ UNCHANGED <<call, Env, att>>

\* lc[c] holds what the call leaves of its local context
LoopdevFindByBackingFile(c, filename, offset, flags) ==
    /\ Idle(c)
    /\ \E r \in {loopdev_find_by_backing_file(filename, offset, flags)} :
          /\ lc' = [lc EXCEPT ![c] = r.lc]
          /\ ret' = [ret EXCEPT ![c] =
                [Ret(c, "loopdev_find_by_backing_file", r.rc)
                    EXCEPT !.probes = r.probes, !.path = r.path,
                           !.pre.flags = loopcxt_init({}).flags,
                           !.arg = FindArg(filename, offset, flags)]]
          /\ probed' = [probed EXCEPT ![c] = r.probes]
    /\ UNCHANGED <<call, Env, att>>

----------------------------------------------------------------------------
(* SpecFind: searches over /dev/loop0 .. /dev/loop2 in every combination of *)
(* free and attached devices                                               *)

FindIdx == 0..2

\* a device some earlier losetup attached to f at offset o
BackedDev(f, o) ==
    [attached |-> TRUE, hasStatus |-> TRUE, backing |-> f,
     status |-> [ZeroInfo EXCEPT !.lo_offset = o,
                                 !.lo_file_name = StrncpyName(f)]]

FindDevs == {FreeDev} \cup {BackedDev(f, o) : f \in {fA, fB}, o \in Offsets}

\* flags 0: the kernel version decides between sysfs and control calls
FindFlagPool == {{}}

InitFind ==
    /\ kernelNew \in BOOLEAN
    /\ devLoopIsDir = FALSE
    /\ dirents = <<Node(0), Node(1), Node(2)>>
    /\ \E d \in [FindIdx -> FindDevs] :
          dev = [n \in AllIdx |-> IF n \in FindIdx THEN d[n] ELSE FreeDev]
    /\ \E fl \in FindFlagPool :
          lc = [c \in Ctxs |-> IF c = 1 THEN loopcxt_init(fl) ELSE ZeroCxt]
    /\ call = [c \in Ctxs |-> IdleCall]
    /\ ret = [c \in Ctxs |-> NoRet]
    /\ probed = [c \in Ctxs |-> <<>>]
    /\ att = [injected |-> FALSE, cx |-> [c \in Ctxs |-> NoAttempt],
              staged |-> [c \in Ctxs |-> NoStaged]]

FindTargets == {fA, fB, NullName}

\* a program searches either through its own context or through the
\* wrapper, whose local context is context 2
NextFind ==
    \E f \in FindTargets : \E o \in Offsets : \E fl \in SUBSET {"OFFSET"} :
        \/ ret[2].op = "none" /\ FindByBackingFile(1, f, o, fl)
        \/ ret[1].op = "none" /\ LoopdevFindByBackingFile(2, f, o, fl)

SpecFind == InitFind /\ [][NextFind]_vars

----------------------------------------------------------------------------
(* Properties of the search, checked under SpecFind *)

\* the used devices, for a context with these flags, whose backing file is
\* the target arg[2] (at the offset arg[3] when arg[4] asks for it)
Matching(flags, arg) ==
    {n \in AllIdx :
        /\ OffsetReadable([flags |-> flags], n)
        /\ dev[n].backing = arg[2]
        /\ "OFFSET" \in arg[4] => dev[n].status.lo_offset = arg[3]}

\* the first device of a set in the order of the rows of /proc/partitions
FirstRow(set) ==
    LET rows == ProcPartitions
        i == CHOOSE i \in 1..Len(rows) :
                /\ rows[i].major = LOOPDEV_MAJOR /\ rows[i].n \in set
                /\ \A j \in 1..(i - 1) :
                      ~(rows[j].major = LOOPDEV_MAJOR /\ rows[j].n \in set)
    IN  rows[i].n

C14_WrapperReturnsMatch ==
    LET r == ret[2]
        M == Matching(r.pre.flags, r.arg)
    IN  (r.op = "loopdev_find_by_backing_file" /\ r.arg[2] # NullName) =>
           /\ M # {} => \E n \in M :
                            r.path = ComposePath(r.pre.flags, NameArg(n))
           /\ M = {} => r.path = NoPath
           /\ (r.path # NoPath /\ IsLoopPath(r.path)) =>
                 dev[PathIdx(r.path)].backing = r.arg[2]

----------------------------------------------------------------------------
(* Descriptors, checked under SpecAttach *)

\* no context holds more than one device descriptor, the one in lc->fd, nor
\* a backing-file descriptor outside loopcxt_setup_device
AtMostOneDescriptor(c) ==
    /\ lc[c].nopen = IF lc[c].fd # NoFd THEN 1 ELSE 0
    /\ Idle(c) => call[c].file_fd = <<>>

\* after loopcxt_deinit nothing is open
DeinitReleasesAll(c) ==
    ret[c].op = "deinit" =>
        /\ lc[c].fd = NoFd
        /\ lc[c].nopen = 0
        /\ ~lc[c].iter.procOpen
        /\ lc[c].iter.minors = <<>>

FailedSetup(c) == ret[c].op = "setup_device" /\ ret[c].rc # 0

----------------------------------------------------------------------------
(* Detach, checked under SpecRound *)

\* the context was bound to a device node when the call r began
BoundAndOpenable(r) == r.pre.device # NoPath /\ NodeExists(r.pre.device)

\* C16: after a successful loopcxt_setup_device on a device d that was
\* discovered as free and a successful loopcxt_delete_device on d, a fresh
\* loopcxt_find_unused yields d again; loopcxt_delete_device on a bound,
\* openable device issues exactly one LOOP_CLR_FD, with no retry, and returns
\* the negative of that call's error when it fails.
C16_DetachFreesDevice ==
    LET r == ret[1]
        a == att.cx[1]
    IN  /\ (r.op = "find_unused" /\ a.prev >= 0 /\ a.prevrc = 0
                                 /\ a.prevdel = 0)
               => r.rc = 0 /\ a.found = a.prev
        /\ (r.op = "delete_device" /\ BoundAndOpenable(r))
               => /\ Len(r.ioctls) = 1
                  /\ r.ioctls[1][1] = "LOOP_CLR_FD"
                  /\ r.rc = -r.ioctls[1][2]

\* loop1 was discovered, attached and detached, and discovered again, and a
\* second loopcxt_delete_device on it then failed
C16_Witness ==
    /\ ret[1].op = "delete_device"
    /\ ret[1].rc = -ENXIO
    /\ att.cx[1].found = 1
    /\ att.cx[1].prev = 1
    /\ att.cx[1].prevrc = 0
    /\ att.cx[1].prevdel = 0

----------------------------------------------------------------------------
(* The device descriptor, checked under Spec *)

\* the number of open() calls a log records
Opens(log) == Cardinality({i \in 1..Len(log) :
                              log[i] \in {"open_ok", "open_fail"}})

\* the last two calls on the context were loopcxt_get_fd on a bound context
TwoGetFd(r) ==
    r.op = "get_fd" /\ r.after # <<>> /\ r.pre.device # NoPath

\* loopcxt_get_fd on an unbound context fails and opens nothing
UnboundGetFdFails ==
    (ret[1].op = "get_fd" /\ ret[1].pre.device = NoPath) =>
        /\ ret[1].rc = -1
        /\ ret[1].log = <<>>
        /\ lc[1].fd = NoFd

\* C17 as stated: two consecutive loopcxt_get_fd calls on a bound context
\* return the same descriptor and perform at most one open; on an unbound
\* context loopcxt_get_fd fails without opening anything.
C17_AtMostOneOpen ==
    /\ TwoGetFd(ret[1]) =>
          /\ lc[1].fd = ret[1].pre.fd
          /\ Opens(ret[1].after) + Opens(ret[1].log) <= 1
    /\ UnboundGetFdFails

\* C17, amended: two consecutive loopcxt_get_fd calls on a bound context
\* return the same result; when the first returned a descriptor the second
\* opens nothing, and when the open of the first failed the second tries the
\* open once more; on an unbound context loopcxt_get_fd fails without
\* opening anything.
C17_OneOpenUnlessFailed ==
    /\ TwoGetFd(ret[1]) =>
          /\ lc[1].fd = ret[1].pre.fd
          /\ ret[1].pre.fd # NoFd =>
                Opens(ret[1].log) = 0 /\ Opens(ret[1].after) <= 1
          /\ ret[1].pre.fd = NoFd =>
                /\ ret[1].after = <<"get_fd", "open_fail">>
                /\ ret[1].log = <<"open_fail">>
    /\ UnboundGetFdFails

\* the second of two calls returned the descriptor the first had opened
C17_Witness ==
    /\ TwoGetFd(ret[1])
    /\ ret[1].after = <<"get_fd", "open_ok">>
    /\ ret[1].log = <<>>
    /\ ret[1].rc = 0
    /\ lc[1].fd # NoFd

----------------------------------------------------------------------------
(* The end of an iteration, checked under SpecIter *)

\* the step is a call of loopcxt_next on an iterator that is done
NextWhenDone == lc[1].iter.done /\ ret'[1].op = "next"

\* C18: once loopcxt_next has reported the end (the iterator is done), every
\* further loopcxt_next returns 1 again and changes nothing: it binds,
\* probes and opens nothing, and leaves cursor, phase and binding as they
\* were.
C18_DoneIsAbsorbing ==
    [][NextWhenDone =>
          /\ ret'[1].rc = 1
          /\ ret'[1].probes = <<>>
          /\ lc' = lc
          /\ probed' = probed
          /\ dev' = dev]_vars

\* loopcxt_next was called on an iterator that had reported the end after
\* probing some devices
C18_Witness ==
    /\ ret[1].op = "next"
    /\ ret[1].pre.done
    /\ ret[1].rc = 1
    /\ probed[1] # <<>>

\* the device numbers of the rows of /proc/partitions whose major is the
\* loop major, in the order of the table
RECURSIVE LoopRowIdx(_)
LoopRowIdx(rows) ==
    IF rows = <<>> THEN <<>>
    ELSE (IF Head(rows).major = LOOPDEV_MAJOR THEN <<Head(rows).n>>
          ELSE <<>>) \o LoopRowIdx(Tail(rows))

IsPrefix(p, q) == Len(p) <= Len(q) /\ p = SubSeq(q, 1, Len(p))

\* C19: with the "used" flag every candidate loopcxt_next binds comes from a
\* row of /proc/partitions whose major is the loop major, in the order of
\* the table, and the iteration ends when the table is exhausted, without
\* probing the classic range or scanning the directory; without the "used"
\* flag /proc/partitions is never opened.
C19_UsedReadsPartitionsOnly ==
    LET l == lc[1]
        r == ret[1]
    IN  /\ ("USED" \in l.iter.flags /\ r.op = "next") =>
              /\ IsPrefix(probed[1], LoopRowIdx(ProcPartitions))
              /\ (r.rc = 1 /\ ~r.pre.done) =>
                    probed[1] = LoopRowIdx(ProcPartitions)
              /\ r.rc = 0 => BoundTo(l, Last(probed[1]))
              /\ l.iter.minors = <<>>
        /\ "USED" \notin l.iter.flags =>
              ~l.iter.procOpen /\ l.iter.proc = <<>>

\* a "used" iteration that ended after two rows of the table, with a
\* directory that names a device beyond the classic range
C19_Witness ==
    /\ "USED" \in lc[1].iter.flags
    /\ ret[1].op = "next"
    /\ ret[1].rc = 1
    /\ probed[1] = <<1, 9>>
    /\ NamedByScan(lc[1]) # {}

----------------------------------------------------------------------------
(* The name read through LOOP_GET_STATUS64, checked under SpecRound *)

\* the call r read, through LOOP_GET_STATUS64 only, a device whose status
\* holds the name loopcxt_set_backing_file stored for its backing file
ReadStoredName(r) ==
    /\ r.op = "get_backing_file"
    /\ ViaIoctl(r)
    /\ ~ViaSysfs(r)
    /\ r.kdev.attached
    /\ r.kdev.hasStatus
    /\ r.kdev.status.lo_file_name = StrncpyName(r.kdev.backing)

\* C20: through the control-call path loopcxt_get_backing_file returns the
\* stored name unchanged for every name of at most LO_NAME_SIZE - 1 bytes,
\* and a truncated name that ends in the sentinel only for names that do not
\* fit.
C20_NameUnchangedIfItFits ==
    LET r == ret[1]
    IN  ReadStoredName(r) =>
           /\ r.kdev.backing.len <= LO_NAME_SIZE - 1 => r.str = r.kdev.backing
           /\ r.str.mark = "*" => r.kdev.backing.len > LO_NAME_SIZE - 1

----------------------------------------------------------------------------
(* The access modes at LOOP_SET_FD, checked under SpecAttach *)

\* the call of c has just issued its LOOP_SET_FD
AfterSetFd(c) == call[c].pc \in {"status", "err"} /\ Len(call[c].ioctls) = 1

\* C21: at the LOOP_SET_FD of loopcxt_setup_device the device descriptor is
\* open in the access mode the backing file was effectively opened in,
\* whatever flags the context was initialised with and whatever getter,
\* discovery and attach operations ran on it before.
C21_DeviceModeIsFileMode ==
    \A c \in Ctxs : AfterSetFd(c) => call[c].dev_fd[2] = call[c].mode

-----------------------------------------------------------------------------
(* The sources loopcxt_init leaves enabled, checked under Spec *)

\* context c is as loopcxt_init(&lc, flags) left it, no call made on it yet
FreshFrom(c, flags) == ret[c].op = "none" /\ lc[c] = loopcxt_init(flags)

\* C22: loopcxt_init sets LOOPDEV_FL_NOIOCTL exactly when the caller's flags
\* do not include LOOPDEV_FL_NOSYSFS and the kernel is at least 2.6.37,
\* whatever other flags the caller passed; and for a caller that passed
\* LOOPDEV_FL_NOSYSFS, init does not add LOOPDEV_FL_NOIOCTL.
C22_InitDisablesIoctlExactly ==
    \A fl \in InitFlagPool :
        FreshFrom(1, fl) /\ "NOIOCTL" \notin fl =>
            /\ ~loopcxt_ioctl_enabled(lc[1]) <=>
                   ("NOSYSFS" \notin fl /\ kernelNew)
            /\ "NOSYSFS" \in fl => loopcxt_ioctl_enabled(lc[1])

====
